---- MODULE Spec2Model ----
(***************************************************************************)
(* Normalization and entity-extraction engine of the property ETL:         *)
(* value normalizers (src/utils/cleaning.py), validated entities           *)
(* (src/models/property.py) and the bundle assembler                       *)
(* (src/pipeline/transform.py).                                            *)
(*                                                                         *)
(* Python values are tagged records: None, PyStr(<<chars>>), PyInt(n),     *)
(* PyBool(b), Decimal(neg, coef, exp) = (-1)^neg * coef * 10^-exp,         *)
(* PyFloat likewise, PyDict(function) and PyList(<<items>>).  A string is  *)
(* the sequence of its characters.  An exception leaving a function is     *)
(* the value Raise(<exception class>).                                     *)
(***************************************************************************)
EXTENDS Integers, Sequences, FiniteSets, TLC

VARIABLES
    records,          \* transform: the input batch (a sequence of raw records)
    index,            \* transform: 1-based position of the next record of the loop
    pc,               \* transform: "loop", "returned" or "raised", "idle" when it is not called;
                      \* run_pipeline after transform: "load", then "done" or "failed"
    exception,        \* transform: the exception that left it (None when none did)
    seen_properties,  \* transform: property keys seen so far
    properties, leads, valuations, rehabs, hoas, taxes,  \* the six output lists
    field_config,     \* DatasetTransformer.field_config: the rows of the configuration table
    property_fields, lead_fields, valuation_fields, rehab_fields, hoa_fields, tax_fields,  \* its field maps
    value,            \* a call of a pure function: its argument
    returned,         \* a call of a pure function: [fn |-> its name, result |-> what it returned]
    utcnow,           \* datetime.utcnow(), in the seconds a DateTime column keeps
    database,         \* the committed rows of the six tables
    session,          \* run_pipeline: the rows of the six tables as its open transaction sees them (None when none is open)
    step,             \* run_pipeline: how many of the six inserts of lines 72-77 are done
    runs              \* the rows of the six tables after each run_pipeline that committed

transformVars == <<records, index, pc, exception, seen_properties, properties, leads, valuations, rehabs, hoas, taxes>>
configVars == <<field_config, property_fields, lead_fields, valuation_fields, rehab_fields, hoa_fields, tax_fields>>
callVars == <<value, returned>>
loadVars == <<utcnow, database, session, step, runs>>
vars == <<records, index, pc, exception, seen_properties, properties, leads, valuations, rehabs, hoas, taxes,
          field_config, property_fields, lead_fields, valuation_fields, rehab_fields, hoa_fields, tax_fields,
          value, returned, utcnow, database, session, step, runs>>

---------------------------------------------------------------------------
(* Python values *)

None == [t |-> "null"]
PyStr(s) == [t |-> "str", v |-> s]
PyInt(n) == [t |-> "int", v |-> n]
PyBool(b) == [t |-> "bool", v |-> b]
Decimal(neg, coef, exp) == [t |-> "decimal", neg |-> neg, coef |-> coef, exp |-> exp]
PyFloat(neg, coef, exp) == [t |-> "float", neg |-> neg, coef |-> coef, exp |-> exp]
PyDict(f) == [t |-> "dict", v |-> f]
PyList(items) == [t |-> "list", v |-> items]
Raise(exc) == [t |-> "raise", v |-> exc]

IsRaise(x) == x.t = "raise"

---------------------------------------------------------------------------
(* Characters and the str methods the code uses *)

UPPERCASE == <<"A","B","C","D","E","F","G","H","I","J","K","L","M","N","O","P","Q","R","S","T","U","V","W","X","Y","Z">>
LOWERCASE == <<"a","b","c","d","e","f","g","h","i","j","k","l","m","n","o","p","q","r","s","t","u","v","w","x","y","z">>
DIGITS == <<"0","1","2","3","4","5","6","7","8","9">>
WHITESPACE == {" ", "\t"}

Range(s) == {s[i] : i \in DOMAIN s}
IndexOf(s, c) == CHOOSE i \in DOMAIN s : s[i] = c /\ \A j \in 1..(i - 1) : s[j] # c

UpperSet == Range(UPPERCASE)
LowerSet == Range(LOWERCASE)
DigitSet == Range(DIGITS)
ToLower == [c \in UpperSet |-> LOWERCASE[IndexOf(UPPERCASE, c)]]
ToUpper == [c \in LowerSet |-> UPPERCASE[IndexOf(LOWERCASE, c)]]
DigitValue == [c \in DigitSet |-> IndexOf(DIGITS, c) - 1]

lowerchar(c) == IF c \in UpperSet THEN ToLower[c] ELSE c
upperchar(c) == IF c \in LowerSet THEN ToUpper[c] ELSE c

lower(s) == [i \in DOMAIN s |-> lowerchar(s[i])]
upper(s) == [i \in DOMAIN s |-> upperchar(s[i])]

RECURSIVE lstrip(_)
lstrip(s) == IF s # <<>> /\ Head(s) \in WHITESPACE THEN lstrip(Tail(s)) ELSE s

RECURSIVE rstrip(_)
rstrip(s) == IF s # <<>> /\ s[Len(s)] \in WHITESPACE THEN rstrip(SubSeq(s, 1, Len(s) - 1)) ELSE s

strip(s) == rstrip(lstrip(s))

\* _WHITESPACE_RE.sub(" ", text): every maximal run of whitespace becomes one space
RECURSIVE _WHITESPACE_RE_sub(_)
_WHITESPACE_RE_sub(s) ==
    IF s = <<>> THEN <<>>
    ELSE IF Head(s) \in WHITESPACE
         THEN <<" ">> \o _WHITESPACE_RE_sub(lstrip(s))
         ELSE <<Head(s)>> \o _WHITESPACE_RE_sub(Tail(s))

Count(s, c) == Cardinality({i \in DOMAIN s : s[i] = c})

RECURSIVE Filter(_, _)
Filter(s, keep) ==
    IF s = <<>> THEN <<>>
    ELSE IF Head(s) \in keep THEN <<Head(s)>> \o Filter(Tail(s), keep) ELSE Filter(Tail(s), keep)

\* s.replace(c, "", n): the first n occurrences of c removed
RECURSIVE RemoveFirst(_, _, _)
RemoveFirst(s, c, n) ==
    IF s = <<>> \/ n = 0 THEN s
    ELSE IF Head(s) = c THEN RemoveFirst(Tail(s), c, n - 1)
         ELSE <<Head(s)>> \o RemoveFirst(Tail(s), c, n)

RECURSIVE Pow10(_)
Pow10(k) == IF k = 0 THEN 1 ELSE 10 * Pow10(k - 1)

RECURSIVE NatStr(_)
NatStr(n) == IF n < 10 THEN <<DIGITS[n + 1]>> ELSE NatStr(n \div 10) \o <<DIGITS[(n % 10) + 1]>>

zfill(s, width) == IF Len(s) >= width THEN s ELSE [i \in 1..(width - Len(s)) |-> "0"] \o s

\* the digits of a number with a point before its last exp digits
WithPoint(neg, digits, exp) ==
    (IF neg THEN <<"-">> ELSE <<>>)
    \o (IF exp = 0 THEN digits
        ELSE SubSeq(digits, 1, Len(digits) - exp) \o <<".">> \o SubSeq(digits, Len(digits) - exp + 1, Len(digits)))

\* str(value) of a non-string scalar.  A float that is not finite is
\* [t |-> "float_nan"] or [t |-> "float_inf", neg |-> its sign], a Decimal
\* that is not finite [t |-> "decimal_nan"], [t |-> "decimal_snan"] (a
\* signaling NaN) or [t |-> "decimal_inf", neg |-> its sign]; a finite float
\* is written with at least one digit after the point.
str(x) ==
    CASE x.t = "int" -> IF x.v < 0 THEN <<"-">> \o NatStr(-x.v) ELSE NatStr(x.v)
      [] x.t = "bool" -> IF x.v THEN <<"T","r","u","e">> ELSE <<"F","a","l","s","e">>
      [] x.t = "null" -> <<"N","o","n","e">>
      [] x.t = "str" -> x.v
      [] x.t = "float" /\ x.exp = 0 -> WithPoint(x.neg, NatStr(x.coef) \o <<"0">>, 1)
      [] x.t = "float" /\ x.exp > 0 -> WithPoint(x.neg, zfill(NatStr(x.coef), x.exp + 1), x.exp)
      [] x.t = "decimal" -> WithPoint(x.neg, zfill(NatStr(x.coef), x.exp + 1), x.exp)
      [] x.t = "float_nan" -> <<"n", "a", "n">>
      [] x.t = "float_inf" -> (IF x.neg THEN <<"-">> ELSE <<>>) \o <<"i", "n", "f">>
      [] x.t = "decimal_nan" -> <<"N", "a", "N">>
      [] x.t = "decimal_inf" -> (IF x.neg THEN <<"-">> ELSE <<>>) \o <<"I", "n", "f", "i", "n", "i", "t", "y">>

---------------------------------------------------------------------------
(* src/utils/cleaning.py *)

_NUMBER_WORDS ==
    (<<"z", "e", "r", "o">> :> 0) @@
    (<<"o", "n", "e">> :> 1) @@
    (<<"t", "w", "o">> :> 2) @@
    (<<"t", "h", "r", "e", "e">> :> 3) @@
    (<<"f", "o", "u", "r">> :> 4) @@
    (<<"f", "i", "v", "e">> :> 5) @@
    (<<"s", "i", "x">> :> 6) @@
    (<<"s", "e", "v", "e", "n">> :> 7) @@
    (<<"e", "i", "g", "h", "t">> :> 8) @@
    (<<"n", "i", "n", "e">> :> 9) @@
    (<<"t", "e", "n">> :> 10) @@
    (<<"e", "l", "e", "v", "e", "n">> :> 11) @@
    (<<"t", "w", "e", "l", "v", "e">> :> 12)

_BOOLEAN_TRUE == {<<"y">>, <<"y","e","s">>, <<"t","r","u","e">>, <<"1">>}
_BOOLEAN_FALSE == {<<"n">>, <<"n","o">>, <<"f","a","l","s","e">>, <<"0">>}
_NULL_TOKENS ==
    {None, PyStr(<<>>), PyStr(<<" ">>), PyStr(<<"n","a">>), PyStr(<<"n","/","a">>),
     PyStr(<<"n","u","l","l">>), PyStr(<<"n","o","n","e">>),
     PyStr(<<"u","n","k","n","o","w","n">>)}

\* lines 44-47, text being value.strip()
CollapseWhitespace(text) == IF text = <<>> THEN None ELSE PyStr(_WHITESPACE_RE_sub(text))

\* "value in _NULL_TOKENS" hashes the value: a signaling NaN cannot be hashed.
\* bytes ([t |-> "bytes", v |-> the characters]) are decoded.
normalize_string(x) ==
    IF x.t = "decimal_snan" THEN Raise("TypeError")
    ELSE IF x \in _NULL_TOKENS THEN None
    ELSE IF x.t \in {"str", "bytes"} THEN CollapseWhitespace(strip(x.v))
    ELSE PyStr(str(x))

\* lines 68-76, text being normalize_string(value)
BoolOfText(text) ==
    IF text = None THEN None
    ELSE IF lower(text.v) \in _BOOLEAN_TRUE THEN PyBool(TRUE)
    ELSE IF lower(text.v) \in _BOOLEAN_FALSE THEN PyBool(FALSE)
    ELSE None

normalize_bool(x) ==
    IF x.t = "decimal_snan" THEN Raise("TypeError")
    ELSE IF x \in _NULL_TOKENS THEN None
    ELSE IF x.t = "bool" THEN x
    ELSE IF x.t = "int" THEN PyBool(x.v # 0)
    ELSE IF x.t = "float_nan" THEN None
    ELSE IF x.t = "float_inf" THEN PyBool(TRUE)
    ELSE IF x.t = "float" THEN PyBool(x.coef # 0)
    ELSE IF x.t \in {"str", "bytes"} THEN BoolOfText(normalize_string(x))
    ELSE None

\* _NON_DIGIT_RE = [^0-9.-] keeps these characters
NumberChars == DigitSet \cup {".", "-"}

\* lines 83-84: all but the last "-" removed
CollapseDashes(cleaned, dashes) ==
    IF dashes > 1 THEN RemoveFirst(cleaned, "-", dashes - 1) ELSE cleaned

\* lines 85-87: all but the first "." removed
KeepFirstDot(cleaned, first) ==
    SubSeq(cleaned, 1, first) \o Filter(SubSeq(cleaned, first + 1, Len(cleaned)), DigitSet \cup {"-"})

CollapseDots(cleaned) ==
    IF Count(cleaned, ".") > 1 THEN KeepFirstDot(cleaned, IndexOf(cleaned, ".")) ELSE cleaned

CollapseSigns(cleaned) == CollapseDots(CollapseDashes(cleaned, Count(cleaned, "-")))

_extract_number_from_string(s) == CollapseSigns(Filter(s, NumberChars))

RECURSIVE DigitsValue(_)
DigitsValue(s) == IF s = <<>> THEN 0 ELSE 10 * DigitsValue(SubSeq(s, 1, Len(s) - 1)) + DigitValue[s[Len(s)]]

\* Decimal(candidate) for a candidate made of digits, "-" and ".": an optional
\* leading sign, digits with at most one point and at least one digit; anything
\* else raises InvalidOperation.
FractionDigits(body) == IF Count(body, ".") = 0 THEN 0 ELSE Len(body) - IndexOf(body, ".")

UnsignedDecimal(neg, body, digits) ==
    IF Count(body, "-") > 0 \/ Count(body, ".") > 1 \/ digits = <<>>
    THEN Raise("InvalidOperation")
    ELSE Decimal(neg, DigitsValue(digits), FractionDigits(body))

SignedDecimal(neg, body) == UnsignedDecimal(neg, body, Filter(body, DigitSet))

DecimalOfString(s) ==
    IF s # <<>> /\ Head(s) = "-" THEN SignedDecimal(TRUE, Tail(s)) ELSE SignedDecimal(FALSE, s)

\* lines 117-120: except InvalidOperation: return None
CatchInvalidOperation(d) == IF IsRaise(d) THEN None ELSE d

\* lines 114-120, candidate being _extract_number_from_string(lowered)
DecimalOfCandidate(candidate) ==
    IF candidate = <<>> THEN None ELSE CatchInvalidOperation(DecimalOfString(candidate))

\* lines 110-120, lowered being text.lower()
DecimalOfLowered(lowered) ==
    IF lowered \in DOMAIN _NUMBER_WORDS THEN Decimal(FALSE, _NUMBER_WORDS[lowered], 0)
    ELSE DecimalOfCandidate(_extract_number_from_string(lowered))

\* lines 106-120, text being normalize_string(value)
DecimalOfText(text) == IF text = None THEN None ELSE DecimalOfLowered(lower(text.v))

normalize_decimal(x) ==
    IF x.t = "decimal_snan" THEN Raise("TypeError")
    ELSE IF x \in _NULL_TOKENS THEN None
    ELSE IF x.t \in {"decimal", "decimal_nan", "decimal_inf"} THEN x
    ELSE IF x.t = "bool" THEN Raise("InvalidOperation")      \* Decimal(str(True))
    ELSE IF x.t = "int" THEN Decimal(x.v < 0, IF x.v < 0 THEN -x.v ELSE x.v, 0)
    ELSE IF x.t = "float_nan" THEN None
    ELSE IF x.t = "float_inf" THEN [t |-> "decimal_inf", neg |-> x.neg]    \* Decimal("inf")
    ELSE IF x.t = "float" THEN DecimalOfString(str(x))
    ELSE IF x.t \in {"str", "bytes"} THEN DecimalOfText(normalize_string(x))
    ELSE None

\* int(d.to_integral_value(rounding="ROUND_HALF_UP")): ties away from zero
RoundHalfUp(coef, unit) ==
    IF 2 * (coef % unit) >= unit THEN (coef \div unit) + 1 ELSE coef \div unit

Signed(neg, magnitude) == IF neg THEN -magnitude ELSE magnitude

ToIntegralHalfUp(d) == Signed(d.neg, RoundHalfUp(d.coef, Pow10(d.exp)))

\* lines 129-134, decimal_value being normalize_decimal(value)
IntOfDecimal(decimal_value) ==
    IF IsRaise(decimal_value) THEN decimal_value
    ELSE IF decimal_value = None THEN None
    ELSE IF decimal_value.t = "decimal_nan" THEN None                     \* ValueError, caught
    ELSE IF decimal_value.t = "decimal_inf" THEN Raise("OverflowError")   \* not caught
    ELSE PyInt(ToIntegralHalfUp(decimal_value))

normalize_int(x) == IntOfDecimal(normalize_decimal(x))

\* float(d), written with the decimal's digits, trailing zeros dropped
RECURSIVE FloatOf(_, _, _)
FloatOf(neg, coef, exp) ==
    IF exp > 0 /\ coef % 10 = 0 THEN FloatOf(neg, coef \div 10, exp - 1) ELSE PyFloat(neg, coef, exp)

\* lines 141-143, decimal_value being normalize_decimal(value)
FloatOfDecimal(decimal_value) ==
    IF IsRaise(decimal_value) THEN decimal_value
    ELSE IF decimal_value = None THEN None
    ELSE IF decimal_value.t = "decimal_nan" THEN [t |-> "float_nan"]
    ELSE IF decimal_value.t = "decimal_inf" THEN [t |-> "float_inf", neg |-> decimal_value.neg]
    ELSE FloatOf(decimal_value.neg, decimal_value.coef, decimal_value.exp)

normalize_float(x) == FloatOfDecimal(normalize_decimal(x))

---------------------------------------------------------------------------
(* Names: the source's string literals, spelled as character sequences *)

\* raw source field names (keys of a raw record, columns of the field configuration)
RawField ==
    [ Street_Address |-> <<"S", "t", "r", "e", "e", "t", "_", "A", "d", "d", "r", "e", "s", "s">>,
      City |-> <<"C", "i", "t", "y">>,
      State |-> <<"S", "t", "a", "t", "e">>,
      Zip |-> <<"Z", "i", "p">>,
      Property_Title |-> <<"P", "r", "o", "p", "e", "r", "t", "y", "_", "T", "i", "t", "l", "e">>,
      Address |-> <<"A", "d", "d", "r", "e", "s", "s">>,
      Year_Built |-> <<"Y", "e", "a", "r", "_", "B", "u", "i", "l", "t">>,
      Source |-> <<"S", "o", "u", "r", "c", "e">>,
      Net_Yield |-> <<"N", "e", "t", "_", "Y", "i", "e", "l", "d">>,
      Taxes |-> <<"T", "a", "x", "e", "s">>,
      List_Price |-> <<"L", "i", "s", "t", "_", "P", "r", "i", "c", "e">>,
      Paint |-> <<"P", "a", "i", "n", "t">>,
      HOA |-> <<"H", "O", "A">>,
      HOA_Flag |-> <<"H", "O", "A", "_", "F", "l", "a", "g">>,
      Valuation |-> <<"V", "a", "l", "u", "a", "t", "i", "o", "n">>,
      Rehab |-> <<"R", "e", "h", "a", "b">>,
      SQFT_MU |-> <<"S", "Q", "F", "T", "_", "M", "U">>,
      BasementYesNo |-> <<"B", "a", "s", "e", "m", "e", "n", "t", "Y", "e", "s", "N", "o">> ]

\* entity attribute names and aliases (src/models/property.py)
Attr ==
    [ property_key |-> <<"p", "r", "o", "p", "e", "r", "t", "y", "_", "k", "e", "y">>,
      scenario_rank |-> <<"s", "c", "e", "n", "a", "r", "i", "o", "_", "r", "a", "n", "k">>,
      property_title |-> <<"p", "r", "o", "p", "e", "r", "t", "y", "_", "t", "i", "t", "l", "e">>,
      address |-> <<"a", "d", "d", "r", "e", "s", "s">>,
      street_address |-> <<"s", "t", "r", "e", "e", "t", "_", "a", "d", "d", "r", "e", "s", "s">>,
      city |-> <<"c", "i", "t", "y">>,
      state |-> <<"s", "t", "a", "t", "e">>,
      zip_code |-> <<"z", "i", "p", "_", "c", "o", "d", "e">>,
      zip |-> <<"z", "i", "p">>,
      year_built |-> <<"y", "e", "a", "r", "_", "b", "u", "i", "l", "t">>,
      created_at |-> <<"c", "r", "e", "a", "t", "e", "d", "_", "a", "t">>,
      source |-> <<"s", "o", "u", "r", "c", "e">>,
      net_yield |-> <<"n", "e", "t", "_", "y", "i", "e", "l", "d">>,
      amount |-> <<"a", "m", "o", "u", "n", "t">>,
      taxes |-> <<"t", "a", "x", "e", "s">>,
      list_price |-> <<"l", "i", "s", "t", "_", "p", "r", "i", "c", "e">>,
      paint |-> <<"p", "a", "i", "n", "t">>,
      hoa_amount |-> <<"h", "o", "a", "_", "a", "m", "o", "u", "n", "t">>,
      hoa |-> <<"h", "o", "a">>,
      hoa_flag |-> <<"h", "o", "a", "_", "f", "l", "a", "g">>,
      sqft_mixed_use |-> <<"s", "q", "f", "t", "_", "m", "i", "x", "e", "d", "_", "u", "s", "e">>,
      basement |-> <<"b", "a", "s", "e", "m", "e", "n", "t">> ]

\* target table names of the field configuration
Table ==
    [ property |-> <<"p", "r", "o", "p", "e", "r", "t", "y">>,
      leads |-> <<"l", "e", "a", "d", "s">>,
      valuation |-> <<"v", "a", "l", "u", "a", "t", "i", "o", "n">>,
      rehab |-> <<"r", "e", "h", "a", "b">>,
      hoa |-> <<"h", "o", "a">>,
      taxes |-> <<"t", "a", "x", "e", "s">> ]

---------------------------------------------------------------------------
(* src/models/property.py: field validators *)

\* datetime.utcnow().year, read from the clock when a year is validated
CurrentYear == 2026

\* pydantic's own validation of an Optional[str] field: None and str pass,
\* bytes are decoded, any other type is rejected (numbers are not coerced)
ValidateOptionalStr(x) ==
    IF x.t \in {"null", "str"} THEN x
    ELSE IF x.t = "bytes" THEN PyStr(x.v)
    ELSE Raise("ValidationError")

\* a validator without mode="before" runs after pydantic's validation of the
\* annotation (PropertyRecord._normalize_string, LeadRecord._normalize_text)
StringFieldValidator(x) ==
    IF IsRaise(ValidateOptionalStr(x)) THEN Raise("ValidationError")
    ELSE normalize_string(ValidateOptionalStr(x))

\* PropertyRecord._normalize_zip (mode="wrap") around _normalize_string
isdigit(s) == s # <<>> /\ \A i \in DOMAIN s : s[i] \in DigitSet

\* lines 135-138, sanitized being zip_str without its spaces and hyphens
PadZip(zip_str, sanitized) == IF isdigit(sanitized) THEN PyStr(zfill(sanitized, 5)) ELSE zip_str

\* lines 133-138, zip_str being handler(value)
SanitizeZip(zip_str) ==
    IF IsRaise(zip_str) THEN zip_str
    ELSE IF zip_str = None THEN None
    ELSE PadZip(zip_str, Filter(zip_str.v, Range(zip_str.v) \ {" ", "-"}))

_normalize_zip(x) == SanitizeZip(StringFieldValidator(x))

\* Python truthiness of normalize_int's result: None and 0 are falsy
Truthy(x) == x # None /\ ~(x.t = "int" /\ x.v = 0)

\* lines 118-122, year being normalize_int(value)
YearInRange(year) ==
    IF IsRaise(year) THEN year
    ELSE IF Truthy(year) /\ year.v < 1700 THEN None
    ELSE IF Truthy(year) /\ year.v > CurrentYear THEN None
    ELSE year

_normalize_year(x) == YearInRange(normalize_int(x))

\* The validator of a field, by the kind of field
Validate(kind, x) ==
    CASE kind = "key" -> x
      [] kind = "rank" -> x
      [] kind = "str" -> StringFieldValidator(x)
      [] kind = "zip" -> _normalize_zip(x)
      [] kind = "year" -> _normalize_year(x)
      [] kind = "bool" -> normalize_bool(x)
      [] kind = "decimal" -> normalize_decimal(x)
      [] kind = "int" -> normalize_int(x)
      [] kind = "float" -> normalize_float(x)
      [] kind = "datetime" -> x

(* Entity classes.  Each is the sequence of its fields in declaration order,  *)
(* a field being its name, its alias (the name when it has none) and the kind *)
(* of its validator.  Of the optional attributes, those the modelled field    *)
(* configuration can populate are listed; the others keep their default None. *)
Field(name, alias, kind) == [name |-> name, alias |-> alias, kind |-> kind]

PropertyRecord ==
    << Field(Attr.property_key, Attr.property_key, "key"),
       Field(Attr.property_title, Attr.property_title, "str"),
       Field(Attr.address, Attr.address, "str"),
       Field(Attr.street_address, Attr.street_address, "str"),
       Field(Attr.city, Attr.city, "str"),
       Field(Attr.state, Attr.state, "str"),
       Field(Attr.zip_code, Attr.zip, "zip"),
       Field(Attr.year_built, Attr.year_built, "year"),
       Field(Attr.created_at, Attr.created_at, "datetime") >>

LeadRecord ==
    << Field(Attr.property_key, Attr.property_key, "key"),
       Field(Attr.source, Attr.source, "str"),
       Field(Attr.net_yield, Attr.net_yield, "float") >>

ValuationRecord ==
    << Field(Attr.property_key, Attr.property_key, "key"),
       Field(Attr.scenario_rank, Attr.scenario_rank, "rank"),
       Field(Attr.list_price, Attr.list_price, "decimal") >>

RehabRecord ==
    << Field(Attr.property_key, Attr.property_key, "key"),
       Field(Attr.scenario_rank, Attr.scenario_rank, "rank"),
       Field(Attr.paint, Attr.paint, "bool") >>

HOARecord ==
    << Field(Attr.property_key, Attr.property_key, "key"),
       Field(Attr.scenario_rank, Attr.scenario_rank, "rank"),
       Field(Attr.hoa_amount, Attr.hoa, "decimal"),
       Field(Attr.hoa_flag, Attr.hoa_flag, "bool") >>

TaxRecord ==
    << Field(Attr.property_key, Attr.property_key, "key"),
       Field(Attr.amount, Attr.taxes, "decimal") >>

\* CleanBaseModel(**payload) with extra="ignore", populate_by_name=True: a field
\* is read from the payload under its alias or its name, a field the payload
\* lacks gets its default without validation (None, and for created_at what
\* its default_factory datetime.utcnow returns), and the construction raises
\* when a validator does: the first exception a validator lets through, or
\* pydantic's ValidationError collecting the fields it rejected.
FieldInput(f, payload) ==
    IF f.alias \in DOMAIN payload THEN payload[f.alias]
    ELSE IF f.name \in DOMAIN payload THEN payload[f.name]
    ELSE None

FieldPresent(f, payload) == f.alias \in DOMAIN payload \/ f.name \in DOMAIN payload

Min(S) == CHOOSE i \in S : \A j \in S : i <= j
Max(S) == CHOOSE i \in S : \A j \in S : j <= i

\* val[i] is what the validator of the i-th field returned or raised
ModelOf(cls, val) ==
    IF \E i \in DOMAIN val : IsRaise(val[i]) /\ val[i].v # "ValidationError"
    THEN val[Min({i \in DOMAIN val : IsRaise(val[i]) /\ val[i].v # "ValidationError"})]
    ELSE IF \E i \in DOMAIN val : IsRaise(val[i]) THEN Raise("ValidationError")
    ELSE [t |-> "model",
          v |-> [a \in {cls[i].name : i \in DOMAIN cls} |->
                   val[CHOOSE i \in DOMAIN cls : cls[i].name = a]]]

Construct(cls, payload) ==
    ModelOf(cls, [i \in DOMAIN cls |->
                     IF FieldPresent(cls[i], payload)
                     THEN Validate(cls[i].kind, FieldInput(cls[i], payload))
                     ELSE IF cls[i].kind = "datetime" THEN [t |-> "datetime", v |-> utcnow]
                     ELSE None])

---------------------------------------------------------------------------
(* src/pipeline/transform.py: DatasetTransformer *)

\* value.replace(old, new) for single characters
replacechar(s, old, new) == [i \in DOMAIN s |-> IF s[i] = old THEN new ELSE s[i]]

\* snake.replace("__", "_"): one pass from the left over non-overlapping pairs
RECURSIVE ReplaceDoubleUnderscore(_)
ReplaceDoubleUnderscore(s) ==
    IF Len(s) < 2 THEN s
    ELSE IF s[1] = "_" /\ s[2] = "_"
         THEN <<"_">> \o ReplaceDoubleUnderscore(SubSeq(s, 3, Len(s)))
         ELSE <<s[1]>> \o ReplaceDoubleUnderscore(Tail(s))

RECURSIVE SnakeLoop(_, _)
SnakeLoop(s, prev_lower) ==
    IF s = <<>> THEN <<>>
    ELSE (IF Head(s) \in UpperSet /\ prev_lower THEN <<"_">> ELSE <<>>)
         \o <<lowerchar(Head(s))>> \o SnakeLoop(Tail(s), Head(s) \in LowerSet)

_to_snake_case(name) ==
    LET sanitized == replacechar(replacechar(name, " ", "_"), "-", "_")
    IN ReplaceDoubleUnderscore(SnakeLoop(sanitized, FALSE))

\* One row of the field configuration table: its "Target Table" and its
\* "Column Name" (a str, or None for a blank cell)
ConfigRow(table, column) == [table |-> table, column |-> column]

\* A field map is the dict of the source as the sequence of its items
\* <<raw_key, target_key>> in insertion order.
HasKey(items, key) == \E i \in DOMAIN items : items[i][1] = key

\* lines 146-148
TargetName(column_name, override) ==
    IF override # <<>> THEN override ELSE _to_snake_case(column_name)

Override(overrides, column_name) ==
    IF column_name \in DOMAIN overrides THEN overrides[column_name] ELSE <<>>

\* mapping[column_name] = normalized
SetItem(items, column_name, normalized) ==
    IF HasKey(items, column_name) THEN items ELSE Append(items, <<column_name, normalized>>)

RECURSIVE DictItems(_, _)
DictItems(rows, overrides) ==
    IF rows = <<>> THEN <<>>
    ELSE SetItem(DictItems(SubSeq(rows, 1, Len(rows) - 1), overrides),
                 rows[Len(rows)].column.v,
                 TargetName(rows[Len(rows)].column.v, Override(overrides, rows[Len(rows)].column.v)))

RowSelected(row, table_name) == lower(row.table) = lower(table_name) /\ row.column.t = "str"

RECURSIVE SelectRows(_, _)
SelectRows(config, table_name) ==
    IF config = <<>> THEN <<>>
    ELSE IF RowSelected(Head(config), table_name)
         THEN <<Head(config)>> \o SelectRows(Tail(config), table_name)
         ELSE SelectRows(Tail(config), table_name)

_build_field_map(config, table_name, overrides) ==
    IF config = None THEN <<>>
    ELSE DictItems(SelectRows(config, table_name), overrides)

\* the last item of the mapping, among those whose raw key the source has,
\* that projects onto target
LastHit(src, mapping, target) ==
    Max({i \in DOMAIN mapping : mapping[i][1] \in DOMAIN src.v /\ mapping[i][2] = target})

\* source is a PyDict or None; the result is the projected dict (a function
\* from target keys to raw values), a later item of the mapping overwriting
\* an earlier one with the same target
_project_fields(src, mapping) ==
    IF src = None \/ DOMAIN src.v = {} THEN << >>
    ELSE [target \in {mapping[i][2] : i \in {j \in DOMAIN mapping : mapping[j][1] \in DOMAIN src.v}} |->
             src.v[mapping[LastHit(src, mapping, target)][1]]]

\* record.get(key)
Get(record, key) == IF key \in DOMAIN record.v THEN record.v[key] ELSE None

\* hashlib.sha256(seed).hexdigest()[:16].  The digest is taken to be free of
\* collisions: it is a one-to-one encoding of the seed.
sha256_hexdigest16(seed) == <<"sha256(">> \o seed \o <<")">>

RECURSIVE Join(_, _)
Join(sep, components) ==
    IF components = <<>> THEN <<>>
    ELSE IF Len(components) = 1 THEN components[1]
    ELSE components[1] \o sep \o Join(sep, Tail(components))

\* lines 165-166 and 169-170: a non-empty value is appended lower-cased
Component(v) == IF v # None /\ v.v # <<>> THEN <<lower(v.v)>> ELSE <<>>

RECURSIVE AddressComponents(_, _)
AddressComponents(record, keys) ==
    IF keys = <<>> THEN <<>>
    ELSE Component(normalize_string(Get(record, Head(keys)))) \o AddressComponents(record, Tail(keys))

\* normalize_string(record.get("Property_Title")) or normalize_string(record.get("Address"))
Or(first, second) == IF first # None /\ first.v # <<>> THEN first ELSE second

Fallback(record) ==
    Or(normalize_string(Get(record, RawField.Property_Title)), normalize_string(Get(record, RawField.Address)))

\* lines 167-170
WithFallback(components, record) ==
    IF components # <<>> THEN components ELSE Component(Fallback(record))

SeedOf_without_position(joined, idx) ==
    IF joined # <<>> THEN joined ELSE <<"r", "e", "c", "o", "r", "d", "-">>

\* line 171: "||".join(components) or f"record-{index}"
SeedOf(joined, idx) ==
    IF joined # <<>> THEN joined ELSE <<"r", "e", "c", "o", "r", "d", "-">> \o NatStr(idx)

KeySeed(record, idx) ==
    SeedOf(Join(<<"|", "|">>,
                WithFallback(AddressComponents(record, <<RawField.Street_Address, RawField.City, RawField.State, RawField.Zip>>), record)),
           idx)

\* lines 173-174: (state or "XX").upper()
StatePrefix(st) == upper(IF st # None /\ st.v # <<>> THEN st.v ELSE <<"X", "X">>)

_build_property_key(record, idx) ==
    PyStr(StatePrefix(normalize_string(Get(record, RawField.State))) \o <<"-">> \o sha256_hexdigest16(KeySeed(record, idx)))

_has_meaningful_payload(payload, skip_keys) ==
    \E key \in DOMAIN payload :
        /\ key \notin skip_keys
        /\ payload[key] # None
        /\ payload[key] # PyStr(<<>>)

---------------------------------------------------------------------------
(* src/utils/cleaning.py ensure_sequence, src/models/property.py iter_scenarios *)

\* lines 161-162, text being normalize_string(value)
ListOfText(text) == IF text = None THEN <<>> ELSE <<text>>

ensure_sequence(x) ==
    IF x = None THEN <<>>
    ELSE IF x.t = "str" THEN ListOfText(normalize_string(x))
    ELSE IF x.t = "dict" THEN <<x>>
    ELSE IF x.t = "list" THEN x.v
    ELSE <<x>>

\* dict(item): a copy of a mapping; the empty dict for an empty string or an
\* empty list; a dict of the pairs for a list of two-character strings;
\* ValueError for a string or list whose elements are no pairs; TypeError
\* for what is not iterable
IsPair(x) == x.t = "str" /\ Len(x.v) = 2

PairKey(pair) == <<pair.v[1]>>
PairValue(pair) == PyStr(<<pair.v[2]>>)

DictOfPairs(pairs) ==
    PyDict([k \in {PairKey(pairs[i]) : i \in DOMAIN pairs} |->
               PairValue(pairs[Max({i \in DOMAIN pairs : PairKey(pairs[i]) = k})])])

dict(item) ==
    IF item.t = "dict" THEN item
    ELSE IF item.t = "str" THEN IF item.v = <<>> THEN PyDict(<< >>) ELSE Raise("ValueError")
    ELSE IF item.t = "list"
         THEN IF \A i \in DOMAIN item.v : IsPair(item.v[i]) THEN DictOfPairs(item.v)
              ELSE IF \E i \in DOMAIN item.v : item.v[i].t \in {"null", "int", "bool", "float", "decimal"}
                   THEN Raise("TypeError")
                   ELSE Raise("ValueError")
    ELSE Raise("TypeError")

\* enumerate(..., start=0): ranks counted from zero
Enumerate_zero_based(dicts) ==
    IF \E i \in DOMAIN dicts : IsRaise(dicts[i])
    THEN dicts[Min({i \in DOMAIN dicts : IsRaise(dicts[i])})]
    ELSE PyList([i \in DOMAIN dicts |-> <<i - 1, dicts[i]>>])

\* the list of (rank, dict) pairs, or the exception of the first dict(item)
\* that raises
Enumerate(dicts) ==
    IF \E i \in DOMAIN dicts : IsRaise(dicts[i])
    THEN dicts[Min({i \in DOMAIN dicts : IsRaise(dicts[i])})]
    ELSE PyList([i \in DOMAIN dicts |-> <<i, dicts[i]>>])

DictEach(items) == [i \in DOMAIN items |-> dict(items[i])]

iter_scenarios(raw_value) == Enumerate(DictEach(ensure_sequence(raw_value)))

---------------------------------------------------------------------------
(* DatasetTransformer.transform: one action per iteration of its loop *)

\* {"property_key": property_key, **projected}
Merge(base, projected) ==
    [k \in DOMAIN base \cup DOMAIN projected |->
        IF k \in DOMAIN projected THEN projected[k] ELSE base[k]]

KeyPayload(key) == (Attr.property_key :> key)

\* A scenario payload whose key is lower-cased, unlike the Property's.
RankPayload_lowercased(key, rank) == (Attr.property_key :> PyStr(lower(key.v))) @@ (Attr.scenario_rank :> PyInt(rank))

RankPayload(key, rank) == (Attr.property_key :> key) @@ (Attr.scenario_rank :> PyInt(rank))

\* "if self._has_meaningful_payload(payload, skip_keys): xs.append(cls(**payload))":
\* what is appended, the exception when the construction raises
EmitIf(cls, payload, skip_keys) ==
    IF _has_meaningful_payload(payload, skip_keys) THEN <<Construct(cls, payload)>> ELSE <<>>

\* the body of "for scenario_rank, scenario in ...", over the whole list
RECURSIVE ScenarioResults(_, _, _, _)
ScenarioResults(scenarios, cls, mapping, key) ==
    IF scenarios = <<>> THEN <<>>
    ELSE EmitIf(cls,
                Merge(RankPayload(key, Head(scenarios)[1]), _project_fields(Head(scenarios)[2], mapping)),
                {Attr.property_key, Attr.scenario_rank})
         \o ScenarioResults(Tail(scenarios), cls, mapping, key)

RECURSIVE UntilRaise(_)
UntilRaise(results) ==
    IF results = <<>> \/ IsRaise(Head(results)) THEN <<>>
    ELSE <<Head(results)>> \o UntilRaise(Tail(results))

FirstRaise(results) ==
    IF \E i \in DOMAIN results : IsRaise(results[i]) THEN results[Min({i \in DOMAIN results : IsRaise(results[i])})] ELSE None

\* A step of the loop body: the entities it appends and the exception that
\* ends it (None when it completes)
Step(appended, raised) == [appended |-> appended, raised |-> raised]

Appended(results) == Step(UntilRaise(results), FirstRaise(results))

LoopOver(scenarios, cls, mapping, key) ==
    IF IsRaise(scenarios) THEN Step(<<>>, scenarios)
    ELSE Appended(ScenarioResults(scenarios.v, cls, mapping, key))

\* lines 91-99, 101-109, 111-119: the scenario loop of one category
ScenarioLoop(record, category, cls, mapping, key) ==
    LoopOver(iter_scenarios(Get(record, category)), cls, mapping, key)

\* lines 77-82, 84-89: the Lead, the Tax
DependentStep(record, cls, mapping, key) ==
    Appended(EmitIf(cls, Merge(KeyPayload(key), _project_fields(record, mapping)), {Attr.property_key}))

\* lines 70-75: the Property
PropertyStep(record, key) ==
    Appended(<<Construct(PropertyRecord, Merge(KeyPayload(key), _project_fields(record, property_fields)))>>)

\* steps[1..n] all completed
Completed(steps, n) == \A i \in 1..n : steps[i].raised = None

\* A transformer that puts new entities at the front of a list.
After_prepended(xs, steps, n) == IF Completed(steps, n - 1) THEN steps[n].appended \o xs ELSE xs

\* what the list xs holds after the n-th step: the step runs when the steps
\* before it completed
After(xs, steps, n) == IF Completed(steps, n - 1) THEN xs \o steps[n].appended ELSE xs

\* The appends of one record in the order of the code: Property, Lead, Tax,
\* Valuation, Rehab, HOA.  An exception ends the call with what was appended
\* before it.
AppendAll(steps) ==
    /\ properties' = After(properties, steps, 1)
    /\ leads' = After(leads, steps, 2)
    /\ taxes' = After(taxes, steps, 3)
    /\ valuations' = After(valuations, steps, 4)
    /\ rehabs' = After(rehabs, steps, 5)
    /\ hoas' = After(hoas, steps, 6)
    /\ IF Completed(steps, 6)
       THEN pc' = "loop" /\ index' = index + 1 /\ exception' = None
       ELSE /\ pc' = "raised"
            /\ index' = index
            /\ exception' = steps[Min({i \in 1..6 : steps[i].raised # None})].raised

\* lines 70-119: the six steps of the loop body for a record that is kept
Steps(record, key) ==
    <<PropertyStep(record, key),
      DependentStep(record, LeadRecord, lead_fields, key),
      DependentStep(record, TaxRecord, tax_fields, key),
      ScenarioLoop(record, RawField.Valuation, ValuationRecord, valuation_fields, key),
      ScenarioLoop(record, RawField.Rehab, RehabRecord, rehab_fields, key),
      ScenarioLoop(record, RawField.HOA, HOARecord, hoa_fields, key)>>

\* A transformer whose duplicate test is missing: every record is processed.
ProcessRecord_without_check(record, key) ==
    /\ seen_properties' = seen_properties \cup {key}
    /\ AppendAll(Steps(record, key))

\* A transformer whose duplicate test guards the Property only: the
\* dependents of a duplicate record are appended.
ProcessRecord_dependents_of_duplicates(record, key) ==
    /\ seen_properties' = seen_properties \cup {key}
    /\ AppendAll(IF key \in seen_properties
                 THEN [Steps(record, key) EXCEPT ![1] = Step(<<>>, None)]
                 ELSE Steps(record, key))

\* lines 64-119 for one record
ProcessRecord(record, key) ==
    IF key \in seen_properties
    THEN /\ index' = index + 1
         /\ UNCHANGED <<pc, exception, seen_properties, properties, leads, valuations, rehabs, hoas, taxes>>
    ELSE /\ seen_properties' = seen_properties \cup {key}
         /\ AppendAll(Steps(record, key))

LoopIteration ==
    /\ pc = "loop"
    /\ index <= Len(records)
    /\ ProcessRecord(records[index], _build_property_key(records[index], index))
    /\ UNCHANGED <<records, configVars, callVars, loadVars>>

\* return NormalizedBundle(...)
Return ==
    /\ pc = "loop"
    /\ index > Len(records)
    /\ pc' = "returned"
    /\ UNCHANGED <<records, index, exception, seen_properties, properties, leads, valuations, rehabs, hoas, taxes,
                   configVars, callVars, loadVars>>

---------------------------------------------------------------------------
(* The inputs: the field configuration and the batches of raw records *)

MaxRecords == 3

\* The configuration workbook's rows (Target Table, Column Name); the workbook
\* itself is not part of the repository.
FieldConfig ==
    << ConfigRow(<<"P", "r", "o", "p", "e", "r", "t", "y">>, PyStr(RawField.Street_Address)),
       ConfigRow(Table.property, PyStr(RawField.City)),
       ConfigRow(Table.property, PyStr(RawField.State)),
       ConfigRow(Table.property, PyStr(RawField.Zip)),
       ConfigRow(Table.property, PyStr(RawField.Property_Title)),
       ConfigRow(Table.property, PyStr(RawField.Year_Built)),
       ConfigRow(Table.property, None),
       ConfigRow(Table.leads, PyStr(RawField.Source)),
       ConfigRow(Table.leads, PyStr(RawField.Net_Yield)),
       ConfigRow(Table.taxes, PyStr(RawField.Taxes)),
       ConfigRow(Table.valuation, PyStr(RawField.List_Price)),
       ConfigRow(Table.rehab, PyStr(RawField.Paint)),
       ConfigRow(Table.hoa, PyStr(RawField.HOA)),
       ConfigRow(Table.hoa, PyStr(RawField.HOA_Flag)) >>

\* address parts of a raw record: two spellings of one address, a second
\* address, no address at all, a title only, an address line under a blank
\* title
Addresses ==
    [ A |-> (RawField.Street_Address :> PyStr(<<"1", " ", "a">>)) @@ (RawField.State :> PyStr(<<"n", "y">>)),
      A_messy |-> (RawField.Street_Address :> PyStr(<<" ", "1", " ", "\t", "A">>))
                  @@ (RawField.State :> PyStr(<<"N", "Y">>)),
      B |-> (RawField.Street_Address :> PyStr(<<"2", " ", "b">>)) @@ (RawField.State :> PyStr(<<"n", "y">>))
            @@ (RawField.Zip :> PyStr(<<"5", "0", "1">>)),
      Absent |-> (RawField.City :> PyStr(<<" ">>)) @@ (RawField.State :> None),
      TitleOnly |-> (RawField.Property_Title :> PyStr(<<"L", "o", "t">>)),
      AddressLine |-> (RawField.Property_Title :> PyStr(<<" ">>)) @@ (RawField.Address :> PyStr(<<"E", "l", "m">>)) ]

\* the rest of a raw record: lead, tax and property fields and scenario values
Rests ==
    LET Price(s) == PyDict((RawField.List_Price :> PyStr(s))) IN
    [ Plain |-> << >>,
      Complete |->
          (RawField.Source :> PyStr(<<"w", "e", "b">>)) @@ (RawField.Net_Yield :> PyStr(<<"7", ".", "5", "%">>))
          @@ (RawField.Taxes :> PyStr(<<"$", "1", ",", "2", "0", "0">>)) @@ (RawField.Year_Built :> PyInt(1955))
          @@ (RawField.Valuation :> PyList(<<Price(<<"1", "0", "0">>), Price(<<>>), Price(<<"5">>)>>))
          @@ (RawField.Rehab :> PyDict((RawField.Paint :> PyStr(<<"Y">>))))
          @@ (RawField.HOA :> PyList(<<PyDict((RawField.HOA :> PyInt(12))
                                              @@ (RawField.HOA_Flag :> PyStr(<<"n", "o">>)))>>)),
      NullTokens |->
          (RawField.Source :> PyStr(<<"n", "/", "a">>)) @@ (RawField.Taxes :> PyStr(<<"\t">>))
          @@ (RawField.Valuation :> PyList(<<Price(<<"n", "/", "a">>), Price(<<"N", "/", "A">>), Price(<<"9">>)>>)),
      Empty |->
          (RawField.Source :> PyStr(<<>>)) @@ (RawField.Net_Yield :> None) @@ (RawField.Taxes :> PyStr(<<>>))
          @@ (RawField.Valuation :> PyList(<<>>)) @@ (RawField.Rehab :> None)
          @@ (RawField.HOA :> PyStr(<<" ">>)),
      ListOfNonMappings |->
          (RawField.Rehab :> PyList(<<PyStr(<<>>), PyDict((RawField.Paint :> PyBool(TRUE))), PyList(<<>>)>>))
          @@ (RawField.HOA :> PyList(<<PyList(<<PyStr(<<"a", "b">>)>>)>>)),
      NumericZip |-> (RawField.Zip :> PyInt(501)),
      BooleanYear |-> (RawField.Year_Built :> PyBool(TRUE)) @@ (RawField.Source :> PyStr(<<"w", "e", "b">>)),
      StringScenario |-> (RawField.Valuation :> PyStr(<<"a", "b", "c">>)) @@ (RawField.Taxes :> PyInt(0)),
      NumberScenario |-> (RawField.HOA :> PyInt(5)) ]

\* The records a batch is drawn from.
RecordPool ==
    {PyDict(Rests.Complete @@ Addresses.A), PyDict(Rests.NullTokens @@ Addresses.A_messy),
     PyDict(Rests.Complete @@ Addresses.B),
     PyDict(Rests.Complete @@ Addresses.Absent), PyDict(Rests.Plain @@ Addresses.TitleOnly),
     PyDict(Rests.NumericZip @@ Addresses.A), PyDict(Rests.BooleanYear @@ Addresses.B),
     PyDict(Rests.StringScenario @@ Addresses.A), PyDict(Rests.NumberScenario @@ Addresses.Absent),
     PyDict(Rests.Empty @@ Addresses.Absent), PyDict(Rests.ListOfNonMappings @@ Addresses.AddressLine)}

NoCall == [fn |-> "", result |-> None]

\* six tables without rows
EmptyTables == [property |-> {}, leads |-> {}, taxes |-> {}, valuation |-> {}, rehab |-> {}, hoa |-> {}]

\* nothing is persisted: the clock stands at 0 and no session is open
LoadIdle ==
    /\ utcnow = 0
    /\ database = EmptyTables
    /\ session = None
    /\ step = 0
    /\ runs = <<>>

\* the overrides of the property table
PropertyOverrides ==
    (RawField.Zip :> Attr.zip_code) @@ (RawField.SQFT_MU :> Attr.sqft_mixed_use)
    @@ (RawField.BasementYesNo :> Attr.basement)

\* DatasetTransformer.__init__
ConfigInit ==
    /\ field_config = FieldConfig
    /\ property_fields = _build_field_map(field_config, Table.property, PropertyOverrides)
    /\ lead_fields = _build_field_map(field_config, Table.leads, << >>)
    /\ valuation_fields = _build_field_map(field_config, Table.valuation, << >>)
    /\ rehab_fields = _build_field_map(field_config, Table.rehab, << >>)
    /\ hoa_fields = _build_field_map(field_config, Table.hoa, << >>)
    /\ tax_fields = _build_field_map(field_config, Table.taxes, (RawField.Taxes :> Attr.amount))

\* transform(records) is entered: the locals of lines 55-61
Init ==
    /\ ConfigInit
    /\ \E n \in 0..MaxRecords : records \in [1..n -> RecordPool]
    /\ index = 1
    /\ pc = "loop"
    /\ exception = None
    /\ seen_properties = {}
    /\ properties = <<>>
    /\ leads = <<>>
    /\ valuations = <<>>
    /\ rehabs = <<>>
    /\ hoas = <<>>
    /\ taxes = <<>>
    /\ value = None
    /\ returned = NoCall
    /\ LoadIdle

Next == LoopIteration \/ Return

Spec == Init /\ [][Next]_vars

---------------------------------------------------------------------------
(* src/models/tables.py, src/pipeline/loader/mysql_loader.py and            *)
(* src/pipeline/etl.py: run_pipeline with dry_run false                     *)

MaxRuns == 2

\* the columns of the six tables, of those the modelled attributes can fill
Columns ==
    [ property |-> {Attr.property_key, Attr.property_title, Attr.address, Attr.street_address, Attr.city,
                    Attr.state, Attr.zip_code, Attr.year_built, Attr.created_at},
      leads |-> {Attr.property_key, Attr.source, Attr.net_yield},
      taxes |-> {Attr.property_key, Attr.amount},
      valuation |-> {Attr.property_key, Attr.scenario_rank, Attr.list_price},
      rehab |-> {Attr.property_key, Attr.scenario_rank, Attr.paint},
      hoa |-> {Attr.property_key, Attr.scenario_rank, Attr.hoa_amount, Attr.hoa_flag} ]

\* model.model_dump(mode="python", by_alias=True, exclude_unset=False): the
\* value of every field under the field's alias
model_dump(cls, model) ==
    [alias \in {cls[i].alias : i \in DOMAIN cls} |->
        model.v[cls[CHOOSE i \in DOMAIN cls : cls[i].alias = alias].name]]

\* line 80: {name: dump.get(name) for name in column_names}
normalized_row(column_names, dump) ==
    [name \in column_names |-> IF name \in DOMAIN dump THEN dump[name] ELSE None]

\* the rows session.execute(table.insert(), payload) adds to the table
_bulk_insert(column_names, cls, models) ==
    {normalized_row(column_names, model_dump(cls, models[i])) : i \in DOMAIN models}

\* a step of the load phase; the bundle stays as transform returned it
Load(next_pc, next_session, next_step) ==
    /\ pc' = next_pc
    /\ session' = next_session
    /\ step' = next_step
    /\ UNCHANGED <<records, index, exception, seen_properties, properties, leads, valuations, rehabs, hoas, taxes,
                   configVars, callVars, utcnow>>

\* etl.py 70-71: the session is opened and the rows of the six tables are
\* deleted in it
clear_existing_data ==
    /\ pc = "returned"
    /\ Load("load", EmptyTables, 0)
    /\ UNCHANGED <<database, runs>>

insert_properties ==
    /\ pc = "load" /\ step = 0
    /\ Load("load", [session EXCEPT !.property = @ \cup _bulk_insert(Columns.property, PropertyRecord, properties)], 1)
    /\ UNCHANGED <<database, runs>>

insert_leads ==
    /\ pc = "load" /\ step = 1
    /\ Load("load", [session EXCEPT !.leads = @ \cup _bulk_insert(Columns.leads, LeadRecord, leads)], 2)
    /\ UNCHANGED <<database, runs>>

insert_taxes ==
    /\ pc = "load" /\ step = 2
    /\ Load("load", [session EXCEPT !.taxes = @ \cup _bulk_insert(Columns.taxes, TaxRecord, taxes)], 3)
    /\ UNCHANGED <<database, runs>>

insert_valuations ==
    /\ pc = "load" /\ step = 3
    /\ Load("load", [session EXCEPT !.valuation = @ \cup _bulk_insert(Columns.valuation, ValuationRecord, valuations)], 4)
    /\ UNCHANGED <<database, runs>>

insert_rehabs ==
    /\ pc = "load" /\ step = 4
    /\ Load("load", [session EXCEPT !.rehab = @ \cup _bulk_insert(Columns.rehab, RehabRecord, rehabs)], 5)
    /\ UNCHANGED <<database, runs>>

insert_hoas ==
    /\ pc = "load" /\ step = 5
    /\ Load("load", [session EXCEPT !.hoa = @ \cup _bulk_insert(Columns.hoa, HOARecord, hoas)], 6)
    /\ UNCHANGED <<database, runs>>

\* session_scope, line 30: the block has ended, the transaction commits
commit ==
    /\ pc = "load" /\ step = 6
    /\ database' = session
    /\ runs' = Append(runs, session)
    /\ Load("done", None, 0)

\* session_scope, lines 31-35: an execute or the commit raises an
\* SQLAlchemyError (the server is gone, a row is refused): the transaction
\* is rolled back and run_pipeline ends with the error
rollback ==
    /\ pc = "load"
    /\ Load("failed", None, 0)
    /\ UNCHANGED <<database, runs>>

\* run_pipeline is run again on the same input, in the same second or later
run_pipeline ==
    /\ pc = "done"
    /\ Len(runs) < MaxRuns
    /\ pc' = "loop"
    /\ index' = 1
    /\ exception' = None
    /\ seen_properties' = {}
    /\ properties' = <<>>
    /\ leads' = <<>>
    /\ valuations' = <<>>
    /\ rehabs' = <<>>
    /\ hoas' = <<>>
    /\ taxes' = <<>>
    /\ utcnow' \in {utcnow, utcnow + 1}
    /\ UNCHANGED <<records, configVars, callVars, database, session, step, runs>>

\* run_pipeline has read its input and entered transform; the tables are
\* empty or hold a row of an earlier load
InitPipeline ==
    /\ ConfigInit
    /\ \E n \in 0..MaxRecords :
           records \in [1..n -> {PyDict(Rests.Complete @@ Addresses.A), PyDict(Rests.NullTokens @@ Addresses.A_messy),
                                 PyDict(Rests.Complete @@ Addresses.B), PyDict(Rests.StringScenario @@ Addresses.A)}]
    /\ index = 1
    /\ pc = "loop"
    /\ exception = None
    /\ seen_properties = {}
    /\ properties = <<>>
    /\ leads = <<>>
    /\ valuations = <<>>
    /\ rehabs = <<>>
    /\ hoas = <<>>
    /\ taxes = <<>>
    /\ value = None
    /\ returned = NoCall
    /\ utcnow = 0
    /\ database \in {EmptyTables,
                      [EmptyTables EXCEPT !.taxes = {(Attr.property_key :> PyStr(<<"o", "l", "d">>))
                                                     @@ (Attr.amount :> None)}]}
    /\ session = None
    /\ step = 0
    /\ runs = <<>>

NextPipeline ==
    \/ LoopIteration
    \/ Return
    \/ clear_existing_data
    \/ insert_properties
    \/ insert_leads
    \/ insert_taxes
    \/ insert_valuations
    \/ insert_rehabs
    \/ insert_hoas
    \/ commit
    \/ rollback
    \/ run_pipeline

SpecPipeline == InitPipeline /\ [][NextPipeline]_vars

---------------------------------------------------------------------------
(* Calls of the pure functions: a normalizer or a field validator applied  *)
(* to one scalar, the key derivation applied to two records of a batch     *)

MaxStrLen == 3
YearSpan == 2

RECURSIVE CaseVariants(_)
CaseVariants(s) ==
    IF s = <<>> THEN {<<>>}
    ELSE {<<c>> \o rest : c \in {lowerchar(Head(s)), upperchar(Head(s))}, rest \in CaseVariants(Tail(s))}

\* The arguments of a call: null, the booleans, the years around 0, 1700 and
\* the current year as integers and as strings, the null tokens in every
\* casing, postal codes and amounts, every string of up to MaxStrLen
\* characters of an alphabet of token letters, whitespace, a digit, a sign
\* and a point, bytes, floats and Decimals, finite and not.
ScalarInputs ==
    LET YearSamples ==
            ((0 - YearSpan)..YearSpan) \cup ((1700 - YearSpan)..(1700 + YearSpan))
            \cup ((CurrentYear - YearSpan)..(CurrentYear + YearSpan + 3)) \cup {1600, 1955}
    IN {None, PyBool(TRUE), PyBool(FALSE)}
       \cup {PyInt(n) : n \in YearSamples}
       \cup {PyStr(str(PyInt(n))) : n \in YearSamples}
       \cup {PyStr(s) : s \in UNION {CaseVariants(tok.v) : tok \in _NULL_TOKENS \ {None}}}
       \cup {PyStr(<<"5", "0", "1">>), PyStr(<<"1", "2", "3", "4", "5", "6">>),
             PyStr(<<"9", "0", "2", "1", "0", "-", "1", "2", "3", "4">>),
             PyStr(<<"$", "1", ",", "2", "3", "4", ".", "5", "0">>), PyStr(<<"t", "w", "e", "l", "v", "e">>),
             PyStr(<<"1", "-", "2", "-", "3">>), PyStr(<<"-", "1", ".", "2", ".", "3">>)}
       \cup {[t |-> "bytes", v |-> s] : s \in {<<>>, <<" ">>, <<"n", "a">>, <<"1", "2">>}}
       \cup {PyFloat(FALSE, 25, 1), PyFloat(TRUE, 1, 0), PyFloat(FALSE, 0, 0), Decimal(FALSE, 250, 2),
             [t |-> "float_nan"], [t |-> "decimal_nan"], [t |-> "decimal_snan"]}
       \cup {[t |-> kind, neg |-> neg] : kind \in {"float_inf", "decimal_inf"}, neg \in BOOLEAN}
       \cup UNION {{PyStr(s) : s \in [1..k -> {"n", "N", "a", "A", "/", " ", "\t", "1", "-", "."}]} :
                       k \in 0..MaxStrLen}

\* no transform call is in progress
TransformIdle ==
    /\ pc = "idle"
    /\ index = 1
    /\ exception = None
    /\ seen_properties = {}
    /\ properties = <<>>
    /\ leads = <<>>
    /\ valuations = <<>>
    /\ rehabs = <<>>
    /\ hoas = <<>>
    /\ taxes = <<>>

InitCalls ==
    /\ ConfigInit
    /\ TransformIdle
    /\ records = <<>>
    /\ value \in ScalarInputs
    /\ returned = NoCall
    /\ LoadIdle

Call(fn, result) ==
    /\ pc = "idle"
    /\ returned = NoCall
    /\ returned' = [fn |-> fn, result |-> result]
    /\ UNCHANGED <<transformVars, configVars, value, loadVars>>

call_normalize_string == Call("normalize_string", normalize_string(value))
call_normalize_bool == Call("normalize_bool", normalize_bool(value))
call_normalize_decimal == Call("normalize_decimal", normalize_decimal(value))
call_normalize_int == Call("normalize_int", normalize_int(value))
call_normalize_float == Call("normalize_float", normalize_float(value))
call_normalize_year == Call("_normalize_year", _normalize_year(value))
call_normalize_zip == Call("_normalize_zip", _normalize_zip(value))

\* the property map of a workbook that has one more row, with value in its
\* "Column Name" cell
call_build_field_map ==
    Call("_build_field_map",
         _build_field_map(Append(field_config, ConfigRow(Table.property, value)), Table.property, PropertyOverrides))

NextCalls ==
    \/ call_normalize_string
    \/ call_normalize_bool
    \/ call_normalize_decimal
    \/ call_normalize_int
    \/ call_normalize_float
    \/ call_normalize_year
    \/ call_normalize_zip
    \/ call_build_field_map

SpecCalls == InitCalls /\ [][NextCalls]_vars

\* raw records that differ in the spelling of their address fields and in
\* their title, which may repeat the street address; a field whose value is
\* drawn as None is absent
KeyRecords ==
    LET Present(fields) == PyDict([k \in {j \in DOMAIN fields : fields[j] # None} |-> fields[k]])
    IN {Present((RawField.Street_Address :> a) @@ (RawField.City :> b) @@ (RawField.State :> c)
                @@ (RawField.Zip :> d) @@ (RawField.Property_Title :> e)) :
            a \in {None, PyStr(<<"1", " ", "a">>), PyStr(<<" ", "1", " ", "\t", "A">>)},
            b \in {None, PyStr(<<"N", "/", "A">>), PyStr(<<"n", "/", "a">>)},
            c \in {None, PyStr(<<"n", "y">>), PyStr(<<"N", "Y", " ">>)},
            d \in {None, PyStr(<<"5", "0", "1">>)},
            e \in {None, PyStr(<<"1", " ", "A">>)}}

\* value is the pair of the 1-based positions of records[1] and records[2]
InitKey ==
    /\ ConfigInit
    /\ TransformIdle
    /\ records \in [1..2 -> KeyRecords]
    /\ value \in {pos \in (1..MaxRecords) \X (1..MaxRecords) : pos[1] # pos[2]}
    /\ returned = NoCall
    /\ LoadIdle

call_build_property_key ==
    Call("_build_property_key",
         <<_build_property_key(records[1], value[1]), _build_property_key(records[2], value[2])>>)

NextKey == call_build_property_key

SpecKey == InitKey /\ [][NextKey]_vars

---------------------------------------------------------------------------
(* Properties of DatasetTransformer.transform (specification Spec)         *)

KeyOf(entity) == entity.v[Attr.property_key]
RankOf(entity) == entity.v[Attr.scenario_rank]
KeysIn(xs) == {KeyOf(xs[i]) : i \in DOMAIN xs}

\* the key the transformer derives for the record at position i of the batch
DerivedKey(i) == _build_property_key(records[i], i)
DerivedKeys == {DerivedKey(i) : i \in DOMAIN records}
FirstWith(key) == Min({i \in DOMAIN records : DerivedKey(i) = key})
HasDuplicate == \E i, j \in DOMAIN records : i < j /\ DerivedKey(i) = DerivedKey(j)

\* for the records from position r on: what the loop body does with each
\* record under its derived key
RECURSIVE StepsFrom(_)
StepsFrom(r) ==
    IF r > Len(records) THEN <<>>
    ELSE <<[key |-> DerivedKey(r), steps |-> Steps(records[r], DerivedKey(r))]>> \o StepsFrom(r + 1)

\* the record at position r is the first of the batch with its key
IsFirst(derived, r) == \A q \in 1..(r - 1) : derived[q].key # derived[r].key

\* the six output lists in the order of the steps of the loop body
Outputs == <<properties, leads, taxes, valuations, rehabs, hoas>>
Dependents == leads \o taxes \o valuations \o rehabs \o hoas
WithKey(xs, key) == SelectSeq(xs, LAMBDA entity : KeyOf(entity) = key)

\* C1: every Property carries a non-null key, no two Properties share a key,
\* and the returned bundle holds exactly one Property for each distinct key
\* derived from the records of the batch.
C1_OnePropertyPerKey ==
    /\ \A i \in DOMAIN properties : KeyOf(properties[i]).t = "str"
    /\ \A i, j \in DOMAIN properties : i # j => KeyOf(properties[i]) # KeyOf(properties[j])
    /\ pc = "returned" => /\ KeysIn(properties) = DerivedKeys
                          /\ Len(properties) = Cardinality(DerivedKeys)

C1_Witness ==
    /\ pc = "returned"
    /\ Len(records) = MaxRecords
    /\ HasDuplicate
    /\ Len(properties) = 2

\* C2: in the returned bundle the entities of each list that carry a key are
\* exactly the entities the first record with that key produces: a later
\* record with the same key adds no Property and no dependent, and changes
\* none of the first one's values.
OnlyFirstContributes(derived) ==
    \A r \in DOMAIN derived :
        IsFirst(derived, r) =>
            \A n \in 1..6 : WithKey(Outputs[n], derived[r].key) = derived[r].steps[n].appended

C2_DuplicatesContributeNothing == pc = "returned" => OnlyFirstContributes(StepsFrom(1))

\* a later record with the key of an earlier one would have produced other
\* entities than the earlier one did
C2_Witness ==
    /\ pc = "returned"
    /\ \E i, j \in DOMAIN records :
           /\ i < j
           /\ DerivedKey(i) = DerivedKey(j)
           /\ \E n \in 2..6 :
                  /\ Steps(records[i], DerivedKey(i))[n].appended # <<>>
                  /\ Steps(records[j], DerivedKey(j))[n].appended # <<>>
                  /\ Steps(records[i], DerivedKey(i))[n] # Steps(records[j], DerivedKey(j))[n]

\* C3: every Lead, Tax, Valuation, Rehab and HOA of the returned bundle has
\* at least one non-null attribute besides property_key and scenario_rank.
C3_DependentsHaveValue ==
    pc = "returned" =>
        \A i \in DOMAIN Dependents :
            \E attr \in DOMAIN Dependents[i].v \ {Attr.property_key, Attr.scenario_rank} :
                Dependents[i].v[attr] # None

\* the record a dependent entity of list n comes from, with the Property of
\* that record in the output under the same key
FromEmittedProperty(derived, entity, n) ==
    \E r \in DOMAIN derived :
        /\ \E i \in DOMAIN derived[r].steps[n].appended : derived[r].steps[n].appended[i] = entity
        /\ \E p \in DOMAIN properties :
               /\ properties[p] = derived[r].steps[1].appended[1]
               /\ KeyOf(properties[p]) = KeyOf(entity)

AllFromEmittedProperty(derived) ==
    \A n \in 2..6 : \A i \in DOMAIN Outputs[n] : FromEmittedProperty(derived, Outputs[n][i], n)

\* C4: every Lead, Tax, Valuation, Rehab and HOA carries the key of a
\* Property of the output, the Property emitted for the raw record the
\* dependent comes from.
C4_DependentsCarryPropertyKey ==
    /\ \A i \in DOMAIN Dependents : KeyOf(Dependents[i]) \in KeysIn(properties)
    /\ pc = "returned" => AllFromEmittedProperty(StepsFrom(1))

C4_Witness ==
    /\ pc = "returned"
    /\ Len(properties) >= 2
    /\ \A n \in 2..6 : Outputs[n] # <<>>
    /\ \E i, j \in DOMAIN Dependents : KeyOf(Dependents[i]) # KeyOf(Dependents[j])

\* the scenario categories: the raw field, the output list and the field map
Category == (4 :> RawField.Valuation) @@ (5 :> RawField.Rehab) @@ (6 :> RawField.HOA)
Mapping == (4 :> valuation_fields) @@ (5 :> rehab_fields) @@ (6 :> hoa_fields)

\* the 1-based positions, from position p on, of the elements of a raw
\* scenario list that hold a meaningful value in a configured field
RECURSIVE MeaningfulPositions(_, _, _)
MeaningfulPositions(items, mapping, p) ==
    IF p > Len(items) THEN <<>>
    ELSE (IF _has_meaningful_payload(_project_fields(dict(items[p]), mapping), {}) THEN <<p>> ELSE <<>>)
         \o MeaningfulPositions(items, mapping, p + 1)

RanksOf(xs) == [i \in DOMAIN xs |-> RankOf(xs[i]).v]

\* C5: no two entities of a scenario list share (property_key,
\* scenario_rank), and in the returned bundle the ranks of the scenarios of a
\* key are, in order, the 1-based positions of the meaningful elements of the
\* raw list: a dropped element does not shift the ranks after it.
C5_RankIsPosition ==
    /\ \A n \in 4..6 : \A i, j \in DOMAIN Outputs[n] :
           i # j => <<KeyOf(Outputs[n][i]), RankOf(Outputs[n][i])>> # <<KeyOf(Outputs[n][j]), RankOf(Outputs[n][j])>>
    /\ pc = "returned" =>
           \A n \in 4..6 : \A r \in DOMAIN records :
               FirstWith(DerivedKey(r)) = r =>
                   RanksOf(WithKey(Outputs[n], DerivedKey(r)))
                       = MeaningfulPositions(ensure_sequence(Get(records[r], Category[n])), Mapping[n], 1)

\* a dropped element in the middle of a list, a list whose elements are all
\* kept, and the same rank under two keys
C5_Witness ==
    /\ pc = "returned"
    /\ \E key \in DerivedKeys : RanksOf(WithKey(valuations, key)) = <<1, 3>>
    /\ \E key \in DerivedKeys : RanksOf(WithKey(valuations, key)) = <<1, 2, 3>>
    /\ \E i, j \in DOMAIN hoas : KeyOf(hoas[i]) # KeyOf(hoas[j]) /\ RankOf(hoas[i]) = RankOf(hoas[j])

\* C7: the construction of an entity never fails: transform does not end
\* with a validation or conversion error of a constructor.
C7_ConstructionNeverFails ==
    ~(pc = "raised" /\ exception.v \in {"ValidationError", "InvalidOperation", "OverflowError"})

\* C9: the flattening of a scenario value never raises: transform does not
\* end with the error of dict(item) in iter_scenarios.
C9_FlatteningNeverRaises ==
    ~(/\ pc = "raised"
      /\ \E n \in 4..6 : /\ IsRaise(iter_scenarios(Get(records[index], Category[n])))
                         /\ exception = iter_scenarios(Get(records[index], Category[n])))

---------------------------------------------------------------------------
(* Properties of the key derivation (specification SpecKey)                *)

\* the null tokens of the specification: the empty string and the tokens in
\* any letter casing
SpecTokens ==
    {<<>>, <<"n", "a">>, <<"n", "/", "a">>, <<"n", "u", "l", "l">>, <<"n", "o", "n", "e">>,
     <<"u", "n", "k", "n", "o", "w", "n">>}

NullIfToken(text) == IF text \in SpecTokens THEN None ELSE PyStr(text)

\* an address value after trimming, whitespace collapsing and lower-casing;
\* None for an absent value and for a null token
Canonical(v) == IF v = None THEN None ELSE NullIfToken(lower(_WHITESPACE_RE_sub(strip(str(v)))))

AddressFields == <<RawField.Street_Address, RawField.City, RawField.State, RawField.Zip>>
CanonicalAddress(record) == [i \in 1..4 |-> Canonical(Get(record, AddressFields[i]))]
HasAddress(record) == \E i \in 1..4 : CanonicalAddress(record)[i] # None

\* C6: two raw records that have an address and whose Street_Address, City,
\* State and Zip are equal after trimming, whitespace collapsing and
\* lower-casing derive the same property_key, whatever their other fields
\* and their positions in the batch.
C6_SameAddressSameKey ==
    (/\ returned.fn = "_build_property_key"
     /\ HasAddress(records[1])
     /\ CanonicalAddress(records[1]) = CanonicalAddress(records[2]))
        => returned.result[1] = returned.result[2]

\* the title of a record or, failing that, its address line
TitleOrAddress(record) ==
    IF Canonical(Get(record, RawField.Property_Title)) # None
    THEN Canonical(Get(record, RawField.Property_Title))
    ELSE Canonical(Get(record, RawField.Address))

\* a record without any value: every field is null, blank or an empty list
FullyEmpty(record) ==
    \A k \in DOMAIN record.v :
        \/ record.v[k] = None
        \/ record.v[k].t = "str" /\ strip(record.v[k].v) = <<>>
        \/ record.v[k] = PyList(<<>>)

\* the records of the batch without Street_Address, City, State and Zip
Unaddressed == {i \in DOMAIN records : ~HasAddress(records[i])}

\* C14: a record without address fields and without title and address line
\* gets a key determined by its position: two such records at different
\* positions derive distinct keys, and two fully-empty records are both
\* emitted as Properties of the returned bundle; a record without address
\* fields but with a title (or, failing that, an address line) derives its
\* key from that value lower-cased.
C14_FallbackKeys ==
    \A i \in Unaddressed :
        /\ TitleOrAddress(records[i]) # None
              => DerivedKey(i) = PyStr(<<"X", "X", "-">> \o sha256_hexdigest16(TitleOrAddress(records[i]).v))
        /\ TitleOrAddress(records[i]) = None
              => \A j \in Unaddressed \ {i} :
                    /\ DerivedKey(j) # DerivedKey(i)
                    /\ (pc = "returned" /\ FullyEmpty(records[i]) /\ FullyEmpty(records[j]))
                          => {DerivedKey(i), DerivedKey(j)} \subseteq KeysIn(properties)

C14_Witness ==
    /\ pc = "returned"
    /\ Len(properties) = 3
    /\ \E i, j \in Unaddressed : i # j /\ FullyEmpty(records[i]) /\ FullyEmpty(records[j])
    /\ \E k \in Unaddressed : TitleOrAddress(records[k]) = PyStr(<<"e", "l", "m">>)

\* the keys of the records from position r on
RECURSIVE KeysFrom(_)
KeysFrom(r) == IF r > Len(records) THEN <<>> ELSE <<DerivedKey(r)>> \o KeysFrom(r + 1)

\* the position of the first record with the key
Origin(keys, key) == Min({i \in DOMAIN keys : keys[i] = key})

\* xs goes by the positions of the records its entities come from and, when
\* it is a scenario list, by scenario_rank among the entities of one record
InInputOrder(xs, ranked, keys) ==
    \A a \in 1..(Len(xs) - 1) :
        \/ Origin(keys, KeyOf(xs[a])) < Origin(keys, KeyOf(xs[a + 1]))
        \/ ranked /\ KeyOf(xs[a]) = KeyOf(xs[a + 1]) /\ RankOf(xs[a]).v < RankOf(xs[a + 1]).v

AllInInputOrder(keys) == \A n \in 1..6 : InInputOrder(Outputs[n], n >= 4, keys)

\* C16: each of the six collections preserves input order: an entity from an
\* earlier record precedes an entity from a later one, and the scenarios of
\* one record are in increasing scenario_rank.
C16_InputOrder == AllInInputOrder(KeysFrom(1))

C16_Witness ==
    /\ pc = "returned"
    /\ HasDuplicate
    /\ Len(properties) = 2 /\ Len(leads) = 2 /\ Len(taxes) = 2
    /\ \E a, b \in DOMAIN valuations :
            KeyOf(valuations[a]) = KeyOf(valuations[1]) /\ KeyOf(valuations[b]) # KeyOf(valuations[1])
            /\ a > 1 /\ b < Len(valuations)

\* C17: two records derive the same property_key, so that the later one is
\* dropped as a duplicate, only when their Street_Address, City, State and
\* Zip are equal after normalization and lower-casing, an absent field being
\* equal to an absent field only: records that differ in an address field,
\* or of which one is keyed by its address and the other by a fallback,
\* never derive the same key.
C17_DuplicateOnlyOnEqualAddress ==
    (returned.fn = "_build_property_key" /\ returned.result[1] = returned.result[2])
        => CanonicalAddress(records[1]) = CanonicalAddress(records[2])

---------------------------------------------------------------------------
(* Properties of the normalizers and of the year validator (SpecCalls)     *)

Normalizers == {"normalize_string", "normalize_bool", "normalize_decimal", "normalize_int", "normalize_float"}

\* null, the empty string, a whitespace-only string, a token in any casing
IsNullToken(x) ==
    \/ x = None
    \/ x.t = "str" /\ (strip(x.v) = <<>> \/ lower(x.v) \in SpecTokens)

\* C8: every normalizer returns null for every null-token input.
C8_NullTokenGivesNull ==
    (returned.fn \in Normalizers /\ IsNullToken(value)) => returned.result = None

\* the year_built the specification asks for, from the normalized raw year
YearBuilt(year) == IF year.v <= 1700 \/ year.v > CurrentYear THEN None ELSE year

\* C10: year_built is null when the normalized raw year is at most 1700 or
\* greater than the current year, and is the normalized year otherwise.
C10_YearBuiltRange ==
    (returned.fn = "_normalize_year" /\ normalize_int(value).t = "int")
        => returned.result = YearBuilt(normalize_int(value))

\* a postal code without its spaces and hyphens, zero-padded to 5 digits
\* when it is purely numeric
SanitizedZip(stripped) == IF isdigit(stripped) THEN zfill(stripped, 5) ELSE stripped

\* C11: the zip_code stored for a non-null postal code string has no space
\* and no hyphen; a purely numeric one is zero-padded to 5 digits and never
\* truncated.
C11_ZipSanitized ==
    (returned.fn = "_normalize_zip" /\ value.t = "str" /\ normalize_string(value) # None)
        => returned.result = PyStr(SanitizedZip(Filter(normalize_string(value).v,
                                                       Range(normalize_string(value).v) \ {" ", "-"})))

\* several "-" reduced to one sign at the front of the number
SignToFront(cleaned) ==
    IF Count(cleaned, "-") > 1 THEN <<"-">> \o Filter(cleaned, DigitSet \cup {"."}) ELSE cleaned

\* the decimal the specification asks for, for the lower-cased text of a
\* string: the number of a number-word; otherwise the exact value of what
\* is left of the digits, "-" and "." once the signs and points are reduced,
\* null when nothing is left or it is no number
DecimalOfCleaned(lowered) ==
    IF lowered \in DOMAIN _NUMBER_WORDS THEN Decimal(FALSE, _NUMBER_WORDS[lowered], 0)
    ELSE DecimalOfCandidate(CollapseDots(SignToFront(Filter(lowered, NumberChars))))

\* C12: normalize_decimal of a string is the exact decimal of its digits,
\* sign and point, several "-" being reduced to one leading sign and several
\* "." to the first; "$1,234.50" gives 1234.50 and "twelve" gives 12.
C12_DecimalOfString ==
    (returned.fn = "normalize_decimal" /\ value.t = "str" /\ normalize_string(value) # None)
        => returned.result = DecimalOfCleaned(lower(normalize_string(value).v))

\* the types of the values a normalizer returns besides null
CanonicalType ==
    [ normalize_string |-> {"str"}, normalize_bool |-> {"bool"},
      normalize_decimal |-> {"decimal", "decimal_nan", "decimal_inf"},
      normalize_int |-> {"int"}, normalize_float |-> {"float", "float_nan", "float_inf"} ]

\* C13: no normalizer raises for a scalar input: each returns null or a
\* value of its canonical type.
C13_NormalizersNeverRaise ==
    returned.fn \in Normalizers
        => (returned.result = None \/ returned.result.t \in CanonicalType[returned.fn])

---------------------------------------------------------------------------
(* Properties of the field maps (SpecCalls)                                *)

\* s without any underscore that another underscore follows
RECURSIVE Collapsed(_)
Collapsed(s) ==
    IF Len(s) < 2 THEN s
    ELSE IF s[1] = "_" /\ s[2] = "_" THEN Collapsed(Tail(s))
    ELSE <<s[1]>> \o Collapsed(Tail(s))

\* the canonical name of the specification: spaces and hyphens become
\* underscores, an underscore goes before each upper-case letter that follows
\* a lower-case letter, the name is lower-cased, double underscores collapse
SnakeName(column) == Collapsed(SnakeLoop(replacechar(replacechar(column, " ", "_"), "-", "_"), FALSE))

IsSnakeName(s) ==
    /\ \A i \in DOMAIN s : s[i] \notin UpperSet \cup {" ", "-"}
    /\ \A i \in 1..(Len(s) - 1) : ~(s[i] = "_" /\ s[i + 1] = "_")

\* the target name the map gives the raw column
Mapped(items, column) == {items[i][2] : i \in {j \in DOMAIN items : items[j][1] = column}}

\* the columns the workbook configures for the property table
PropertyColumns ==
    {row.column.v : row \in {r \in Range(field_config) \cup {ConfigRow(Table.property, value)} :
                                 lower(r.table) = Table.property /\ r.column.t = "str"}}

\* C15: for every configured source column of a table the field map gives
\* the override when the column has one and the snake-case name otherwise;
\* a derived snake-case name is lower-case and has no space, no hyphen and
\* no two consecutive underscores.
C15_FieldMap ==
    returned.fn = "_build_field_map" =>
        \A column \in PropertyColumns :
            IF column \in DOMAIN PropertyOverrides
            THEN Mapped(returned.result, column) = {PropertyOverrides[column]}
            ELSE /\ Mapped(returned.result, column) = {SnakeName(column)}
                 /\ \A name \in Mapped(returned.result, column) : IsSnakeName(name)

---------------------------------------------------------------------------
(* Properties of the load phase (SpecPipeline)                             *)

\* the lists of the bundle in the order of the inserts, under their tables
Loaded ==
    <<[table |-> "property", models |-> properties], [table |-> "leads", models |-> leads],
      [table |-> "taxes", models |-> taxes], [table |-> "valuation", models |-> valuations],
      [table |-> "rehab", models |-> rehabs], [table |-> "hoa", models |-> hoas]>>

\* the table holds a row that has, in each column, the entity's attribute of
\* the column's name
StoredAsIs(rows, columns, entity) ==
    \E row \in rows : \A name \in columns : row[name] = entity.v[name]

\* C18: when a bundle is persisted every attribute of every entity is written
\* to the column of the same name: each inserted row equals its entity in
\* every column, so no attribute that has a value is stored as NULL.
C18_ColumnsHoldAttributes ==
    pc = "load" =>
        \A n \in 1..step :
            \A i \in DOMAIN Loaded[n].models :
                StoredAsIs(session[Loaded[n].table], Columns[Loaded[n].table], Loaded[n].models[i])

\* C19: reruns are idempotent: after every run_pipeline on the same input
\* the six tables hold the rows they held after the first.
C19_RerunsIdempotent == \A i \in DOMAIN runs : runs[i] = runs[1]

====
